---- MODULE Spec2Model ----
(***************************************************************************)
(* Model of reporter/server.py: the Sanic application that receives        *)
(* browser reports (CSP, NEL, Expect-CT, HPKP, Reporting API) and probe    *)
(* captures, validates them and stores them in PostgreSQL through one      *)
(* process-wide psycopg2 connection.                                       *)
(*                                                                         *)
(* Strings that the code takes apart (the URL path, the Content-Type       *)
(* header, the request body of a probe) are sequences of characters or     *)
(* tokens; a JSON document is a record of the keys the code looks at.      *)
(***************************************************************************)
EXTENDS Integers, Sequences, FiniteSets, TLC

\* ---------------------------------------------------------------- bounds
NTasks == 2          \* connections served concurrently by the event loop
MaxRequests == 2     \* requests received in one behaviour of Spec
MaxLoopRequests == 3 \* requests received in one behaviour of SpecLoop
MaxFaults == 1       \* database-side events (session killed, server stopped)

\* ------------------------------------------------------------ null values
Absent == "<absent>"           \* Python None: a header or key that is not there

\* ------------------------------------------------------------- URL paths
Letters == {"a","b","c","d","e","f","g","h","i","j","k","l","m",
            "n","o","p","q","r","s","t","u","v","w","x","y","z"}
Digits == {"0","1","2","3","4","5","6","7","8","9"}

\* server.py:104, the character class [a-z0-9-] of the route pattern
TagChars == Letters \cup Digits \cup {"-"}

\* server.py:104, the repetition {,20} of the route pattern
MaxTagLen == 20

\* A URL path segment: the string (name) and its characters (chars), which the
\* route pattern is matched against.
Str(name, chars) == [name |-> name, chars |-> chars]

\* server.py:104, '/<tag:[a-z0-9-]{,20}>': does the path segment match
MatchesWithLimit(chars, limit) ==
    /\ Len(chars) <= limit
    /\ \A i \in 1..Len(chars) : chars[i] \in TagChars

MatchesTag(chars) == MatchesWithLimit(chars, MaxTagLen)

\* server.py:113, the tuple ('magick', 'xxe', 'xss') of probe tags
ProbeTags == {"magick", "xxe", "xss"}

\* server.py:98 and server.py:104: the route table; NotFound and
\* MethodNotSupported both go to the handler not_found (server.py:92)
Route(method, path) ==
    IF path.name = "robots.txt"
    THEN IF method \in {"GET", "HEAD"} THEN "robots" ELSE "not_found"
    ELSE IF MatchesTag(path.chars)
         THEN IF method \in {"GET", "POST"} THEN "report" ELSE "not_found"
         ELSE "not_found"

\* ------------------------------------------------------- response headers
\* server.py:47-50
HEADERS == { <<"X-Robots-Tag", "noindex,nofollow,noarchive">>,
             <<"Content-Security-Policy", "default-src 'none'">> }

\* sanic.response.text(body, status, headers): headers default to none
NoHeaders == {}

text(body, status, headers) ==
    [status |-> status, body |-> body, headers |-> headers, exc |-> "none"]

\* An exception that leaves the handler: Sanic's default error handler
\* answers with the exception's status code (500 unless it is a SanicException)
Raised(exc) ==
    [status |-> IF exc = "InvalidUsage" THEN 400 ELSE 500,
     body |-> IF exc = "InvalidUsage" THEN "Failed when parsing body as json"
              ELSE "Internal Server Error",
     headers |-> NoHeaders,
     exc |-> exc]

NoResponse == [status |-> 0, body |-> "", headers |-> NoHeaders, exc |-> "none"]

\* --------------------------------------------------------- JSON documents
\* The value under 'csp-report': absent, falsy ({} or null), a truthy value
\* that is no dict (a string, a list, a number), or a dict with the two keys
\* the noise filter reads.
NoCsp == [kind |-> "absent", bu |-> Absent, sf |-> Absent]
CspFalsy == [kind |-> "falsy", bu |-> Absent, sf |-> Absent]
CspNonDict == [kind |-> "nondict", bu |-> Absent, sf |-> Absent]
CspDict(bu, sf) == [kind |-> "dict", bu |-> bu, sf |-> sf]

NoRequestHeaders == [ua |-> Absent, xrealip |-> Absent, ct |-> <<>>]
NoBody == [kind |-> "absent", chars |-> <<>>]

\* A parsed JSON value. top is its Python type; nonzero its truth value when
\* it is no dict; for a dict the fields are its keys: type, csp-report,
\* validated-certificate-chain (hpkp), expect-ct-report (ect), any other key
\* (other), and the keys headers and body of a probe capture.
Scalar(top, nonzero) ==
    [top |-> top, nonzero |-> nonzero, type |-> Absent, csp |-> NoCsp,
     hpkp |-> "absent", ect |-> "absent", other |-> FALSE,
     hasCapture |-> FALSE, headers |-> NoRequestHeaders, body |-> NoBody]

None == Scalar("NoneType", FALSE)

Dict(type, csp, hpkp, ect, other) ==
    [top |-> "dict", nonzero |-> FALSE, type |-> type, csp |-> csp,
     hpkp |-> hpkp, ect |-> ect, other |-> other,
     hasCapture |-> FALSE, headers |-> NoRequestHeaders, body |-> NoBody]

\* server.py:114-115 and 122/124: {'headers': ..., 'type': tag, 'body': ...}
Capture(headers, type, body) ==
    [top |-> "dict", nonzero |-> FALSE, type |-> type, csp |-> NoCsp,
     hpkp |-> "absent", ect |-> "absent", other |-> FALSE,
     hasCapture |-> TRUE, headers |-> headers, body |-> body]

\* len(d) > 0 for a dict
HasKeys(d) ==
    \/ d.type # Absent
    \/ d.csp.kind # "absent"
    \/ d.hpkp # "absent"
    \/ d.ect # "absent"
    \/ d.other
    \/ d.hasCapture

\* Python truth value: bool(data)
Truthy(d) == IF d.top = "dict" THEN HasKeys(d) ELSE d.nonzero

\* Python truth value of data.get('csp-report')
CspTruthy(c) == c.kind \in {"nondict", "dict"}

\* ----------------------------------------------------------------- requests
\* request.body: raw bytes that are no JSON text (kind "raw"; no bytes at all
\* is the empty body) or the text of a JSON document (kind "json", doc its
\* parsed value).
RawBody(bytes) == [kind |-> "raw", bytes |-> bytes, doc |-> None]
JsonBody(doc) == [kind |-> "json", bytes |-> <<"json-text">>, doc |-> doc]

Request(method, path, ua, xrealip, ct, body, args, fault) ==
    [method |-> method, path |-> path,
     headers |-> [ua |-> ua, xrealip |-> xrealip, ct |-> ct],
     peer |-> "192.0.2.1", body |-> body, args |-> args, fault |-> fault]

\* Python truth value of a header value: None and '' are false
HeaderTruthy(v) == v \notin {Absent, ""}

\* server.py:109-111
ClientIp(req) ==
    IF HeaderTruthy(req.headers.xrealip) THEN req.headers.xrealip ELSE req.peer

\* --------------------------------------------------------- body decoding
\* str.split(sep): the pieces between the occurrences of sep
RECURSIVE Split(_, _)
Split(s, sep) ==
    IF \A i \in 1..Len(s) : s[i] # sep
    THEN <<s>>
    ELSE LET i == CHOOSE k \in 1..Len(s) :
                    /\ s[k] = sep
                    /\ \A j \in 1..(k - 1) : s[j] # sep
         IN <<SubSeq(s, 1, i - 1)>> \o Split(SubSeq(s, i + 1, Len(s)), sep)

\* 'charset' in ct, on a header given as its tokens
Contains(ct, token) == \E i \in 1..Len(ct) : ct[i] = token

Utf8 == <<"utf-8">>

\* server.py:116-120: the charset named by Content-Type; ct.split('=')[1]
\* raises IndexError when the header holds no '='
CharsetOf(ct) ==
    IF ct # <<>> /\ Contains(ct, "charset")
    THEN IF Len(Split(ct, "=")) >= 2
         THEN [exc |-> "none", name |-> Split(ct, "=")[2]]
         ELSE [exc |-> "IndexError", name |-> <<>>]
    ELSE [exc |-> "none", name |-> Utf8]

\* codecs.lookup: the encodings Python knows, among the names used here
CodecKnown(name) == name \in {<<"utf-8">>, <<"latin-1">>}

\* codecs.decode(bytes, charset, 'replace') for a known charset: an invalid
\* byte becomes U+FFFD; latin-1 has no invalid byte
DecodeByte(b, name) ==
    IF b = "0xff"
    THEN IF name = <<"latin-1">> THEN "y-diaeresis" ELSE "U+FFFD"
    ELSE b

Decode(bytes, name) == [i \in 1..Len(bytes) |-> DecodeByte(bytes[i], name)]

\* server.py:122, codecs.decode(request.body, charset, 'replace'): LookupError
\* for a charset Python does not know
DecodeBody(bytes, name) ==
    IF CodecKnown(name)
    THEN [exc |-> "none", body |-> [kind |-> "text", chars |-> Decode(bytes, name)]]
    ELSE [exc |-> "LookupError", body |-> NoBody]

\* server.py:127, request.json (sanic Request.load_json): None for an empty
\* body, InvalidUsage for a body that is no JSON text
LoadJson(body) ==
    IF body.kind = "json" THEN [exc |-> "none", data |-> body.doc]
    ELSE IF body.bytes = <<>> THEN [exc |-> "none", data |-> None]
    ELSE [exc |-> "InvalidUsage", data |-> None]

\* server.py:113-127: the report data of a request, or the exception raised
\* while building it
Classify(req) ==
    IF req.path.name \in ProbeTags
    THEN LET cs == CharsetOf(req.headers.ct)
         IN IF cs.exc # "none" THEN [exc |-> cs.exc, data |-> None]
            ELSE IF req.method = "POST"
            THEN LET dec == DecodeBody(req.body.bytes, cs.name)
                 IN IF dec.exc # "none" THEN [exc |-> dec.exc, data |-> None]
                    ELSE [exc |-> "none",
                          data |-> Capture(req.headers, req.path.name, dec.body)]
            ELSE [exc |-> "none",
                  data |-> Capture(req.headers, req.path.name,
                                   [kind |-> "args", chars |-> req.args])]
    ELSE LoadJson(req.body)

\* ------------------------------------------------------------- validation
\* server.py:136-150: the tuple handed to any(); every element calls data.get
Rules(d) ==
    << d.type \in {"magick", "xxe", "xss"},
       d.type \in {"deprecation", "intervention", "crash"},
       d.type = "network-error",
       d.type = "feature-policy-violation",
       CspTruthy(d.csp),
       d.hpkp = "truthy",
       d.ect = "truthy" >>

AnyOf(t) == \E i \in 1..Len(t) : t[i]

\* server.py:134-152. Python builds both tuples before all() runs, so data.get
\* is called whatever type(data) is: AttributeError for a value that is no dict
Validate(d) ==
    IF d.top # "dict" THEN "AttributeError"
    ELSE IF (d.top = "dict") /\ AnyOf(Rules(d)) THEN "accept"
    ELSE "reject"

\* server.py:155-157: data.get('csp-report').get(...) raises AttributeError
\* when the value under 'csp-report' is truthy and no dict
Ignored(d) ==
    IF ~CspTruthy(d.csp) THEN "keep"
    ELSE IF d.csp.kind # "dict" THEN "AttributeError"
    ELSE IF d.csp.bu = "chrome-extension" \/ d.csp.sf = "about" THEN "drop"
    ELSE "keep"

NoParams == [data |-> None, tag |-> "", ip |-> "", ua |-> Absent]

\* server.py:105-165: the handler up to the database calls. done: the handler
\* has returned or raised and resp is the answer; otherwise params are the
\* parameters of the INSERT statement.
Prepare(req) ==
    LET c == Classify(req)
        data == c.data
    IN IF c.exc # "none"
       THEN [done |-> TRUE, resp |-> Raised(c.exc), params |-> NoParams]
       ELSE IF ~Truthy(data)
       THEN [done |-> TRUE, resp |-> text("No report", 400, NoHeaders),
             params |-> NoParams]
       ELSE IF Validate(data) = "AttributeError"
       THEN [done |-> TRUE, resp |-> Raised("AttributeError"), params |-> NoParams]
       ELSE IF Validate(data) = "reject"
       THEN [done |-> TRUE, resp |-> text("Unsupported report", 400, NoHeaders),
             params |-> NoParams]
       ELSE IF Ignored(data) = "AttributeError"
       THEN [done |-> TRUE, resp |-> Raised("AttributeError"), params |-> NoParams]
       ELSE IF Ignored(data) = "drop"
       THEN [done |-> TRUE, resp |-> text("", 204, NoHeaders), params |-> NoParams]
       ELSE [done |-> FALSE, resp |-> NoResponse,
             params |-> [data |-> data, tag |-> req.path.name,
                         ip |-> ClientIp(req), ua |-> req.headers.ua]]

\* ---------------------------------------------------------------- database
\* The tables of the INSERT statement (server.py:23-45). A dimension row is
\* [id, value]; a fact row is [data, ip, user_agent_id, tag_id] (its own id and
\* its date, NOW(), are left out).
EmptyTables == [useragents |-> <<>>, tags |-> <<>>, reports |-> <<>>]

\* The column user_agent as the tables are described: text UNIQUE, no NOT NULL
UserAgentNullable == TRUE

\* server.py:25-29 and 31-35: INSERT ... ON CONFLICT (value) DO UPDATE SET
\* value = same RETURNING id. A NULL never conflicts with a row (PostgreSQL
\* treats NULLs as distinct under a unique index). seq is the last value of
\* the id sequence; nextval is drawn whether or not the row conflicts.
Upsert(rows, val, seq) ==
    IF val # Absent /\ \E i \in 1..Len(rows) : rows[i].value = val
    THEN [rows |-> rows,
          id |-> rows[CHOOSE i \in 1..Len(rows) : rows[i].value = val].id]
    ELSE [rows |-> Append(rows, [id |-> seq + 1, value |-> val]),
          id |-> seq + 1]

\* server.py:23-45, the whole statement on the tables T
Insert(T, seqs, params) ==
    LET ua == Upsert(T.useragents, params.ua, seqs.ua)
        tg == Upsert(T.tags, params.tag, seqs.tag)
    IN [useragents |-> ua.rows,
        tags |-> tg.rows,
        reports |-> Append(T.reports,
                           [data |-> params.data, ip |-> params.ip,
                            user_agent_id |-> ua.id, tag_id |-> tg.id])]

\* Does the database refuse the statement (a data-level fault): a NULL
\* user agent in a NOT NULL column, or a value the request carries that a
\* column type or constraint rejects (fault = "data")
Refused(req, params) ==
    \/ req.fault = "data"
    \/ (params.ua = Absent /\ ~UserAgentNullable)

\* server.py:53-60, psycopg2.connect: a new connection object. closed: the
\* client library knows the connection is closed; alive: the server side of
\* the session exists; tx: the state of its transaction; work: the tables as
\* the open transaction sees them.
NewConnection(id) ==
    [id |-> id, closed |-> FALSE, alive |-> TRUE, tx |-> "idle",
     work |-> EmptyTables]

\* ------------------------------------------------------------------- state
Tasks == 1..NTasks

VARIABLES
    db,         \* the committed tables
    seqs,       \* the id sequences of the dimension tables
    dbUp,       \* the database server accepts connections
    database,   \* server.py:82 and 106: the process-wide connection
    pc,         \* where each task is
    frame,      \* the locals of each task's running handler
    loop,       \* the task that holds the event loop, or 0
    last,       \* the request most recently answered by a handler
    received,   \* requests received so far
    faults,     \* database-side events so far
    inputs,     \* the requests clients may send
    budget      \* how many requests clients send

vars == <<db, seqs, dbUp, database, pc, frame, loop, last, received, faults,
          inputs, budget>>

NoRequest == Request("", Str("", <<>>), Absent, Absent, <<>>, RawBody(<<>>), <<>>, "none")

NoFrame == [req |-> NoRequest, params |-> NoParams, cursor |-> 0,
            before |-> EmptyTables, conn0 |-> NewConnection(0), dbUp0 |-> FALSE,
            faults0 |-> 0, reconnected |-> FALSE]

NoLast == [task |-> 0, route |-> "none", stage |-> "none", req |-> NoRequest, resp |-> NoResponse,
           before |-> EmptyTables, after |-> EmptyTables,
           conn0 |-> NewConnection(0), dbUp0 |-> FALSE, quiet |-> FALSE,
           reconnected |-> FALSE]

\* The labels inside the handler report, between its first and last database call
HandlerLabels == {"cursor", "execute", "commit"}

AwaitsBeforeCommit(label) == label = "commit"

\* Does the handler give up the event loop before the statement at this label:
\* server.py:105-179 holds no await, and the psycopg2 calls block
Awaits(label) == FALSE

\* Who holds the loop once task t has moved to label
Holder(t, label) == IF label \in HandlerLabels /\ ~Awaits(label) THEN t ELSE 0

MayRun(t) == loop \in {0, t}

\* The handler of task t ends with resp: the answer is recorded with what the
\* handler saw and did, and the task goes on to write the response.
Finish(t, route, fr, resp, after) ==
    /\ last' = [task |-> t, route |-> route, stage |-> pc[t],
                req |-> fr.req, resp |-> resp,
                before |-> fr.before, after |-> after,
                conn0 |-> fr.conn0, dbUp0 |-> fr.dbUp0,
                quiet |-> (faults = fr.faults0),
                reconnected |-> fr.reconnected]
    /\ frame' = [frame EXCEPT ![t] = NoFrame]
    /\ pc' = [pc EXCEPT ![t] = "respond"]
    /\ loop' = 0

\* The locals of a handler that starts on req
Enter(req, params) ==
    [req |-> req, params |-> params, cursor |-> 0, before |-> db,
     conn0 |-> database, dbUp0 |-> dbUp, faults0 |-> faults,
     reconnected |-> FALSE]

\* ----------------------------------------------------------------- actions
\* A client's request arrives on connection t
Receive(t) ==
    /\ pc[t] = "idle"
    /\ received < budget
    /\ pc' = [pc EXCEPT ![t] = "received"]
    /\ received' = received + 1
    /\ UNCHANGED <<db, seqs, dbUp, database, frame, loop, last, faults, inputs, budget>>

\* server.py:98-100
Robots(t) ==
    /\ pc[t] = "received"
    /\ MayRun(t)
    /\ \E req \in inputs :
        /\ Route(req.method, req.path) = "robots"
        /\ Finish(t, "robots", Enter(req, NoParams),
                  text("User-agent: *\nDisallow: /", 200, HEADERS), db)
    /\ UNCHANGED <<db, seqs, dbUp, database, received, faults, inputs, budget>>

\* server.py:92-94
NotFound(t) ==
    /\ pc[t] = "received"
    /\ MayRun(t)
    /\ \E req \in inputs :
        /\ Route(req.method, req.path) = "not_found"
        /\ Finish(t, "not_found", Enter(req, NoParams),
                  text("Not found", 404, HEADERS), db)
    /\ UNCHANGED <<db, seqs, dbUp, database, received, faults, inputs, budget>>

\* server.py:105-165: report, up to its first database call
ReportBegin(t) ==
    /\ pc[t] = "received"
    /\ MayRun(t)
    /\ \E req \in inputs :
        /\ Route(req.method, req.path) = "report"
        /\ LET p == Prepare(req)
           IN IF p.done
              THEN Finish(t, "report", Enter(req, NoParams), p.resp, db)
              ELSE /\ frame' = [frame EXCEPT ![t] = Enter(req, p.params)]
                   /\ pc' = [pc EXCEPT ![t] = "cursor"]
                   /\ loop' = Holder(t, "cursor")
                   /\ UNCHANGED last
    /\ UNCHANGED <<db, seqs, dbUp, database, received, faults, inputs, budget>>

\* server.py:167-171: database.cursor(); on InterfaceError (the connection is
\* known to be closed) connect again and take a cursor of the new connection.
\* psycopg2.connect raises OperationalError when the server is not there.
Cursor(t) ==
    /\ pc[t] = "cursor"
    /\ MayRun(t)
    /\ IF ~database.closed
       THEN /\ frame' = [frame EXCEPT ![t].cursor = database.id]
            /\ pc' = [pc EXCEPT ![t] = "execute"]
            /\ loop' = Holder(t, "execute")
            /\ UNCHANGED <<database, last>>
       ELSE IF dbUp
       THEN /\ database' = NewConnection(database.id + 1)
            /\ frame' = [frame EXCEPT ![t].cursor = database.id + 1,
                                      ![t].reconnected = TRUE]
            /\ pc' = [pc EXCEPT ![t] = "execute"]
            /\ loop' = Holder(t, "execute")
            /\ UNCHANGED last
       ELSE /\ Finish(t, "report", [frame[t] EXCEPT !.reconnected = TRUE],
                      Raised("OperationalError"), db)
            /\ UNCHANGED database
    /\ UNCHANGED <<db, seqs, dbUp, received, faults, inputs, budget>>

\* server.py:176, cursor.execute(INSERT, params), on the connection the cursor
\* was taken from (the mogrify of server.py:173-174 only prints)
Execute(t) ==
    /\ pc[t] = "execute"
    /\ MayRun(t)
    /\ IF frame[t].cursor # database.id \/ database.closed
       THEN \* a cursor of a connection that is closed
            /\ Finish(t, "report", frame[t], Raised("InterfaceError"), db)
            /\ UNCHANGED <<database, seqs>>
       ELSE IF ~database.alive
       THEN \* the session is gone: psycopg2 marks the connection closed
            /\ database' = [database EXCEPT !.closed = TRUE, !.tx = "idle",
                                            !.work = EmptyTables]
            /\ Finish(t, "report", frame[t], Raised("OperationalError"), db)
            /\ UNCHANGED seqs
       ELSE IF database.tx = "aborted"
       THEN \* current transaction is aborted, commands ignored
            /\ Finish(t, "report", frame[t], Raised("InFailedSqlTransaction"), db)
            /\ UNCHANGED <<database, seqs>>
       ELSE IF Refused(frame[t].req, frame[t].params)
       THEN \* the statement fails; nothing rolls the transaction back
            /\ database' = [database EXCEPT !.tx = "aborted", !.work = EmptyTables]
            /\ Finish(t, "report", frame[t], Raised("DataError"), db)
            /\ UNCHANGED seqs
       ELSE /\ database' =
                [database EXCEPT
                    !.tx = "intrans",
                    !.work = Insert(IF database.tx = "intrans"
                                    THEN database.work ELSE db,
                                    seqs, frame[t].params)]
            /\ seqs' = [ua |-> seqs.ua + 1, tag |-> seqs.tag + 1]
            /\ pc' = [pc EXCEPT ![t] = "commit"]
            /\ loop' = Holder(t, "commit")
            /\ UNCHANGED <<frame, last>>
    /\ UNCHANGED <<db, dbUp, received, faults, inputs, budget>>

\* server.py:177-179, database.commit() on the process-wide connection
Commit(t) ==
    /\ pc[t] = "commit"
    /\ MayRun(t)
    /\ IF database.closed
       THEN /\ Finish(t, "report", frame[t], Raised("InterfaceError"), db)
            /\ UNCHANGED <<database, db>>
       ELSE IF ~database.alive
       THEN /\ database' = [database EXCEPT !.closed = TRUE, !.tx = "idle",
                                            !.work = EmptyTables]
            /\ Finish(t, "report", frame[t], Raised("OperationalError"), db)
            /\ UNCHANGED db
       ELSE /\ db' = IF database.tx = "intrans" THEN database.work ELSE db
            /\ database' = [database EXCEPT !.tx = "idle", !.work = EmptyTables]
            /\ Finish(t, "report", frame[t], text("", 204, NoHeaders), db')
    /\ UNCHANGED <<seqs, dbUp, received, faults, inputs, budget>>

\* Sanic writes the response of task t; the connection can take a new request
Respond(t) ==
    /\ pc[t] = "respond"
    /\ MayRun(t)
    /\ pc' = [pc EXCEPT ![t] = "idle"]
    /\ UNCHANGED <<db, seqs, dbUp, database, frame, loop, last, received,
                   faults, inputs, budget>>

\* The server ends the session of the connection (idle timeout, failover, an
\* administrator): the client library does not know until it next uses it
KillSession ==
    /\ faults < MaxFaults
    /\ database.alive
    /\ ~database.closed
    /\ database' = [database EXCEPT !.alive = FALSE]
    /\ faults' = faults + 1
    /\ UNCHANGED <<db, seqs, dbUp, pc, frame, loop, last, received, inputs, budget>>

\* The database server stops: every session ends, no connection is accepted
StopServer ==
    /\ faults < MaxFaults
    /\ dbUp
    /\ dbUp' = FALSE
    /\ database' = [database EXCEPT !.alive = FALSE]
    /\ faults' = faults + 1
    /\ UNCHANGED <<db, seqs, pc, frame, loop, last, received, inputs, budget>>

\* The database server accepts connections again
StartServer ==
    /\ ~dbUp
    /\ dbUp' = TRUE
    /\ UNCHANGED <<db, seqs, database, pc, frame, loop, last, received, faults,
                   inputs, budget>>

\* ------------------------------------------------------------------ inputs
\* server.py:137-143, the report types the validator accepts
Taxonomy == {"magick", "xxe", "xss", "deprecation", "intervention", "crash",
             "network-error", "feature-policy-violation"}

Mozilla == "Mozilla/5.0"
TagAaa == Str("aaa", <<"a","a","a">>)
TagCsp == Str("csp", <<"c","s","p">>)
TagXss == Str("xss", <<"x","s","s">>)
TagMagick == Str("magick", <<"m","a","g","i","c","k">>)
\* test.py:52, a path the route pattern refuses
TagInvalid == Str("x-1-2@", <<"x","-","1","-","2","@">>)
TagTooLong == Str("aaaaaaaaaaaaaaaaaaaaa", [i \in 1..(MaxTagLen + 1) |-> "a"])
RobotsTxt == Str("robots.txt", <<"r","o","b","o","t","s",".","t","x","t">>)

ChromeExtension == CspDict("chrome-extension", Absent)
AboutSource == CspDict(Absent, "about")
OtherCsp == CspDict("https://example.com/x.js", "https://example.com/app.js")

\* JSON objects: {"type": t} for the accepted types, an unknown type and no
\* type ({} itself), objects with other keys, CSP, HPKP and Expect-CT reports
ObjectDocs ==
    {Dict(ty, NoCsp, "absent", "absent", FALSE) : ty \in Taxonomy \cup {"bogus", Absent}}
    \cup {Dict(Absent, NoCsp, "absent", "absent", TRUE),
          Dict("network-error", NoCsp, "absent", "absent", TRUE)}
    \cup {Dict(Absent, c, "absent", "absent", FALSE) :
            c \in {CspFalsy, CspNonDict, ChromeExtension, AboutSource, OtherCsp,
                   CspDict(Absent, Absent)}}
    \cup {Dict("crash", c, "absent", "absent", FALSE) :
            c \in {CspFalsy, CspNonDict, ChromeExtension}}
    \cup {Dict(Absent, NoCsp, "truthy", "absent", FALSE),
          Dict(Absent, NoCsp, "falsy", "absent", FALSE),
          Dict(Absent, NoCsp, "absent", "truthy", FALSE)}

\* JSON values that are no object: null, [], [1], "x", 7
ScalarDocs ==
    {None, Scalar("list", FALSE), Scalar("list", TRUE), Scalar("str", TRUE),
     Scalar("int", TRUE)}

JsonBodies ==
    {JsonBody(d) : d \in ObjectDocs \cup ScalarDocs}
    \cup {RawBody(<<>>), RawBody(<<"a", "0xff">>)}

\* Content-Type headers, as tokens
ContentTypes ==
    { <<>>,
      <<"text/plain">>,
      <<"text/plain", "; ", "charset", "=", "utf-8">>,
      <<"text/plain", "; ", "charset", "=", "latin-1">>,
      <<"text/plain", "; ", "charset", "=", "bogus">>,
      <<"text/plain", "; ", "charset", "=", "utf-8", "; ", "boundary", "=", "x">>,
      <<"text/plain", "; ", "charset">> }

JsonRequests ==
    {Request("POST", TagAaa, Mozilla, Absent, <<>>, b, <<>>, "none") :
        b \in JsonBodies}
    \cup {Request("POST", TagAaa, Absent, Absent, <<>>, JsonBody(d), <<>>, "none") :
            d \in {Dict("crash", NoCsp, "absent", "absent", FALSE),
                   Dict(Absent, NoCsp, "absent", "absent", FALSE)}}
    \cup {Request("POST", TagCsp, Mozilla, xr, <<>>, JsonBody(d), <<>>, "none") :
            xr \in {Absent, "203.0.113.9"},
            d \in {Dict("crash", NoCsp, "absent", "absent", FALSE),
                   Dict(Absent, ChromeExtension, "absent", "absent", FALSE)}}
    \cup {Request("POST", TagAaa, Mozilla, Absent, <<>>,
                  JsonBody(Dict("crash", NoCsp, "absent", "absent", FALSE)),
                  <<>>, "data"),
          Request("GET", TagAaa, Mozilla, Absent, <<>>, RawBody(<<>>), <<>>, "none")}

ProbeRequests ==
    {Request("POST", TagXss, Mozilla, Absent, ct, RawBody(b), <<>>, "none") :
        ct \in ContentTypes, b \in {<<>>, <<"a", "0xff">>}}
    \cup {Request("GET", TagMagick, Mozilla, Absent, ct, RawBody(<<>>), <<"q">>, "none") :
            ct \in {<<>>, <<"text/plain", "; ", "charset">>,
                    <<"text/plain", "; ", "charset", "=", "bogus">>}}
    \cup {Request("POST", TagXss, Absent, Absent, <<>>,
                  JsonBody(Dict("bogus", NoCsp, "absent", "absent", FALSE)),
                  <<>>, "none")}

OtherRequests ==
    {Request(m, RobotsTxt, Mozilla, Absent, <<>>, RawBody(<<>>), <<>>, "none") :
        m \in {"GET", "HEAD", "POST"}}
    \cup {Request("POST", tg, Mozilla, Absent, <<>>,
                  JsonBody(Dict("network-error", NoCsp, "absent", "absent", TRUE)),
                  <<>>, "none") : tg \in {TagInvalid, TagTooLong}}
    \cup {Request("PUT", TagAaa, Mozilla, Absent, <<>>, RawBody(<<>>), <<>>, "none")}

AllRequests == JsonRequests \cup ProbeRequests \cup OtherRequests

\* A small set of requests that takes every path through the database calls
LoopRequests ==
    {Request("POST", TagAaa, Mozilla, Absent, <<>>,
             JsonBody(Dict("crash", NoCsp, "absent", "absent", FALSE)),
             <<>>, f) : f \in {"none", "data"}}
    \cup {Request("GET", RobotsTxt, Mozilla, Absent, <<>>, RawBody(<<>>), <<>>, "none"),
          Request("PUT", TagAaa, Mozilla, Absent, <<>>, RawBody(<<>>), <<>>, "none"),
          Request("POST", TagAaa, Mozilla, Absent, <<>>, RawBody(<<>>), <<>>, "none")}

\* ----------------------------------------------------------- specification
\* server.py:64-88: the module is loaded, database = connect(app) succeeded
Start(reqs, n) ==
    /\ db = EmptyTables
    /\ seqs = [ua |-> 0, tag |-> 0]
    /\ dbUp = TRUE
    /\ database = NewConnection(1)
    /\ pc = [t \in Tasks |-> "idle"]
    /\ frame = [t \in Tasks |-> NoFrame]
    /\ loop = 0
    /\ last = NoLast
    /\ received = 0
    /\ faults = 0
    /\ inputs = reqs
    /\ budget = n

Init == Start(AllRequests, MaxRequests)

InitLoop == Start(LoopRequests, MaxLoopRequests)

Next ==
    \/ \E t \in Tasks : Receive(t)
    \/ \E t \in Tasks : Robots(t)
    \/ \E t \in Tasks : NotFound(t)
    \/ \E t \in Tasks : ReportBegin(t)
    \/ \E t \in Tasks : Cursor(t)
    \/ \E t \in Tasks : Execute(t)
    \/ \E t \in Tasks : Commit(t)
    \/ \E t \in Tasks : Respond(t)
    \/ KillSession
    \/ StopServer
    \/ StartServer

Spec == Init /\ [][Next]_vars

SpecLoop == InitLoop /\ [][Next]_vars

\* ------------------------------------------------------------------ claims
\* What the claims say about the request most recently answered (last).
Doc == last.req.body.doc
Tag == last.req.path.name

\* The answered request was a POST of a JSON text to a tag that is no probe tag
JsonReport ==
    /\ last.route = "report"
    /\ Tag \notin ProbeTags
    /\ last.req.body.kind = "json"

\* The database was up and the connection usable from the start of the handler
\* to its end, and the database does not refuse the statement
HealthyRun ==
    /\ last.dbUp0
    /\ last.conn0.alive
    /\ ~last.conn0.closed
    /\ last.conn0.tx = "idle"
    /\ last.quiet
    /\ last.req.fault = "none"

\* The handler added exactly one fact row and it references the dimension rows
\* of the request's tag and user agent
OneFactRow ==
    /\ Len(last.after.reports) = Len(last.before.reports) + 1
    /\ SubSeq(last.after.reports, 1, Len(last.before.reports)) = last.before.reports
    /\ LET r == last.after.reports[Len(last.after.reports)]
       IN /\ \E i \in 1..Len(last.after.tags) :
                /\ last.after.tags[i].id = r.tag_id
                /\ last.after.tags[i].value = Tag
          /\ \E i \in 1..Len(last.after.useragents) :
                /\ last.after.useragents[i].id = r.user_agent_id
                /\ last.after.useragents[i].value = last.req.headers.ua

NothingWritten == last.after = last.before

\* C1: a POST of a JSON object whose type is in the accepted taxonomy,
\* whatever other keys it carries, against a healthy database returns 204 and
\* adds exactly one fact row that references the tag's and the user agent's
\* dimension rows.
C1_AcceptedTypeIsStored ==
    (/\ last.route = "report"
     /\ last.req.method = "POST"
     /\ last.req.body.kind = "json"
     /\ Doc.top = "dict"
     /\ Doc.type \in Taxonomy
     /\ HealthyRun)
    => (last.resp.status = 204 /\ OneFactRow)

\* C2: for a non-probe tag and a body that parses as JSON, the document is
\* accepted if and only if it is an object for which one of the seven rules
\* holds; every parsed document failing them (the empty object included) is
\* answered 400 'Unsupported report'.
C2_ValidatorDecides ==
    JsonReport =>
        IF Doc.top = "dict" /\ AnyOf(Rules(Doc))
        THEN last.resp.status # 400
        ELSE last.resp.status = 400 /\ last.resp.body = "Unsupported report"

\* Client-input errors: an empty body, a body that is no JSON, a parsed value
\* that is no object, an object of unrecognized type
ClientInputError ==
    /\ last.route = "report"
    /\ Tag \notin ProbeTags
    /\ \/ last.req.body.kind = "raw"
       \/ Doc.top # "dict"
       \/ ~AnyOf(Rules(Doc))

\* C3: every client-input error ends with HTTP 400, never with a 500 or an
\* unhandled exception, and never reaches the persistence layer; a non-object
\* top level (read here as a non-empty one: [1], "x", 7) is rejected as
\* 'Unsupported report', an empty body as 'No report'.
C3_ClientErrorsAre400 ==
    ClientInputError =>
        /\ last.resp.status = 400
        /\ last.resp.exc \in {"none", "InvalidUsage"}
        /\ last.stage = "received"
        /\ NothingWritten
        /\ (last.req.body.kind = "json" /\ Doc.top # "dict" /\ Truthy(Doc)
                => last.resp.body = "Unsupported report")
        /\ (last.req.body.kind = "raw" /\ last.req.body.bytes = <<>>
                => last.resp.body = "No report")

\* The noise of the CSP filter: blocked-uri 'chrome-extension' or source-file
\* 'about'
IsNoise(c) == c.bu = "chrome-extension" \/ c.sf = "about"

\* C4: a report with a csp-report key is discarded silently (204, no row in
\* any table) exactly when it is noise; every other accepted CSP report is
\* persisted and produces a fact row.
C4_OnlyNoiseIsDropped ==
    (/\ JsonReport
     /\ Doc.top = "dict"
     /\ Doc.csp.kind # "absent"
     /\ AnyOf(Rules(Doc))
     /\ HealthyRun)
    => IF IsNoise(Doc.csp)
       THEN last.resp.status = 204 /\ NothingWritten
       ELSE last.resp.status = 204 /\ OneFactRow

\* The request passed validation and the noise filter
ReachedPersistence ==
    /\ last.route = "report"
    /\ ~Prepare(last.req).done

\* C5: when a persistence operation (cursor, execute or commit) fails because
\* the connection is stale or broken, the gateway reconnects once and retries;
\* with the database up the request returns 204 with its fact row persisted.
C5_StaleConnectionIsRetried ==
    (/\ ReachedPersistence
     /\ ~last.conn0.alive
     /\ last.dbUp0
     /\ last.quiet
     /\ last.req.fault = "none")
    => (last.resp.status = 204 /\ OneFactRow)

Unique(rows) ==
    \A i, j \in 1..Len(rows) : rows[i].value = rows[j].value => i = j

\* C6: the tags and user_agents tables hold at most one row per value, an
\* existing dimension row keeps its identifier, and a request for an
\* already-seen tag or user agent (a request without User-Agent included)
\* reuses the existing row.
C6_DimensionsAreUnique ==
    /\ Unique(db.useragents)
    /\ Unique(db.tags)
    /\ (last.route = "report" /\ last.stage = "commit" /\ last.resp.status = 204) =>
        /\ SubSeq(last.after.useragents, 1, Len(last.before.useragents))
               = last.before.useragents
        /\ SubSeq(last.after.tags, 1, Len(last.before.tags)) = last.before.tags
        /\ \A i \in 1..Len(last.before.useragents) :
               last.before.useragents[i].value = last.req.headers.ua
                   => last.after.useragents = last.before.useragents
        /\ \A i \in 1..Len(last.before.tags) :
               last.before.tags[i].value = Tag
                   => last.after.tags = last.before.tags

\* C7: a fatal persistence error is confined to its request: a valid request
\* handled while the database is healthy (server up, session alive, the
\* statement not refused) returns 204 and persists its fact row, whatever
\* happened to earlier requests.
C7_FailureIsConfined ==
    (/\ ReachedPersistence
     /\ last.dbUp0
     /\ last.conn0.alive
     /\ last.quiet
     /\ last.req.fault = "none")
    => (last.resp.status = 204 /\ OneFactRow)

\* C8: every response the service builds (200, 204, 400, 404) carries the
\* headers X-Robots-Tag and Content-Security-Policy.
C8_EveryResponseHasHeaders ==
    (last.route # "none" /\ last.resp.exc = "none")
        => HEADERS \subseteq last.resp.headers

\* The connection instances task t has a statement in flight on: the one its
\* cursor belongs to, and at commit the process-wide one
Uses(t) ==
    IF pc[t] = "execute" THEN {frame[t].cursor}
    ELSE IF pc[t] = "commit" THEN {frame[t].cursor, database.id}
    ELSE {}

\* C9: under any interleaving of in-flight requests, at most one request has a
\* statement (cursor, execute, commit) in flight on a connection instance,
\* also when a request replaced the process-wide handle by reconnecting.
C9_OneStatementPerConnection ==
    \A t1, t2 \in Tasks : t1 # t2 => Uses(t1) \cap Uses(t2) = {}

\* C9 witness: a request is between execute and commit on a handle it made by
\* reconnecting while another request has been received and waits for the loop
C9_Witness ==
    \E t1, t2 \in Tasks :
        /\ t1 # t2
        /\ pc[t1] = "commit"
        /\ frame[t1].reconnected
        /\ frame[t1].cursor = database.id
        /\ pc[t2] = "received"

\* C10: for a probe tag, body decoding never raises (UTF-8 when the charset is
\* absent or unparseable, invalid bytes replaced), so every probe request ends
\* with the capture {headers, type: tag, body} persisted and 204.
C10_ProbeIsAlwaysStored ==
    (/\ last.route = "report"
     /\ Tag \in ProbeTags
     /\ HealthyRun)
    => /\ last.resp.status = 204
       /\ OneFactRow
       /\ LET d == last.after.reports[Len(last.after.reports)].data
          IN /\ d.hasCapture
             /\ d.type = Tag
             /\ d.headers = last.req.headers
             /\ last.req.method = "GET" => d.body.chars = last.req.args

====
